---- MODULE Spec2Model ----
(***************************************************************************)
(* Model of src/bot.py: the Steam friend-count monitor.                    *)
(*                                                                         *)
(* Spec      : repeated invocations of check_accounts() against the two    *)
(*             files on disk (DATA_FILE, INIT_FILE), with concurrent       *)
(*             fetches, the diff loop, save_counts and the notifications.  *)
(* SpecChunk : send_telegram_message() applied to bounded texts.           *)
(***************************************************************************)
EXTENDS Integers, Sequences, FiniteSets, TLC

(* ------------------------------ bounds --------------------------------- *)
\* number of invocations of the script that are explored
MaxRuns == 3
\* friend counts range over 0..MaxCount
MaxCount == 2
\* texts handed to send_telegram_message have at most MaxText characters
MaxText == 6
\* the maximum message length ranges over 1..MaxL
MaxL == 3

(* --------------------------- configuration ----------------------------- *)
\* The roster is an ordered list in which an identifier may be repeated
\* (src/bot.py lists e.g. 76561199417703947 on lines 23 and 24).
STEAM_ACCOUNTS == <<"A", "B", "A">>

\* threshold of the detailed first-run listing
DETAIL_LIMIT == 50

N == Len(STEAM_ACCOUNTS)
RosterIds == {STEAM_ACCOUNTS[i] : i \in 1..N}
Counts == 0..MaxCount

\* Python's None, as a value outside Counts
None == -1
\* a fetch task that has not completed yet
Pending == -2

EmptyMap == [x \in {} |-> 0]

\* dict.get(key): the value, or None
Get(m, k) == IF k \in DOMAIN m THEN m[k] ELSE None

\* dict[key] = value
Put(m, k, v) == [x \in (DOMAIN m) \cup {k} |-> IF x = k THEN v ELSE m[x]]

(* ------------------------------ state ---------------------------------- *)
VARIABLES
    marker,        \* INIT_FILE exists
    file,          \* DATA_FILE: [state: missing | partial | json, data]
    runs,          \* number of invocations started
    pc,            \* position of the current invocation in check_accounts
    first_run,     \* local of check_accounts
    previous,      \* local of check_accounts
    current,       \* local of check_accounts
    changes,       \* local of check_accounts
    fetched,       \* per task: Pending, or what fetch_friend_count returned
    order,         \* the order in which the tasks completed
    results,       \* what asyncio.gather returned
    idx,           \* position of the for loop over results (1-based)
    sent,          \* messages handed to send_telegram_message in this run
    firstRunCalls, \* history: the value returned by each is_first_run call
    lastFailed,    \* history: identifiers with no successful fetch in the
                   \*          last run that completed save_counts
    lastDropped,   \* history: the baselines that run had loaded for them
    tornSave,      \* history: the save_counts that was interrupted between
                   \*          open and the end of json.dump, until the next load
    message,       \* send_telegram_message: its argument
    maxLen,        \* send_telegram_message: MAX_MESSAGE_LENGTH
    lines,         \* send_telegram_message: message.split('\n')
    li,            \* send_telegram_message: position of the for loop
    current_chunk, \* send_telegram_message: local
    out,           \* the messages handed to _send_single_message, in order
    cpc            \* position in send_telegram_message

chunkVars == <<message, maxLen, lines, li, current_chunk, out, cpc>>
vars == <<marker, file, runs, pc, first_run, previous, current, changes,
          fetched, order, results, idx, sent, firstRunCalls, lastFailed,
          lastDropped, tornSave, message, maxLen, lines, li, current_chunk, out, cpc>>

(* ------------------------- files on disk ------------------------------- *)
MissingFile == [state |-> "missing", data |-> EmptyMap]
\* opened with mode 'w' (truncated) and not yet completely written
PartialFile == [state |-> "partial", data |-> EmptyMap]
JsonFile(m) == [state |-> "json", data |-> m]

\* load_previous_counts: the parsed dict, {} on any exception (no file, or
\* a truncated file that json.load rejects)
load_previous_counts(f) == IF f.state = "json" THEN f.data ELSE EmptyMap

\* save_counts, first half: open(DATA_FILE, 'w') truncates the file
save_counts_open(f) == PartialFile

\* save_counts, second half: json.dump and close, the file holds counts only
save_counts_dump(f, counts) == JsonFile(counts)

\* is_first_run that forgets to write INIT_FILE
is_first_run_NoMarker(m) == [ret |-> ~m, marker |-> m]

\* is_first_run: the returned value and the marker afterwards
is_first_run(m) == [ret |-> ~m, marker |-> TRUE]

(* ------------------------- fetch_friend_count -------------------------- *)
\* what one request can end in: an HTTP status with a friends list of some
\* size, or an exception (timeout, transport error, malformed body)
Responses ==
    {[exc |-> FALSE, status |-> s, friends |-> c] : s \in {200, 403, 500}, c \in Counts}
    \cup {[exc |-> TRUE, status |-> 0, friends |-> 0]}

fetch_friend_count(resp) ==
    IF resp.exc THEN None
    ELSE IF resp.status = 200 THEN resp.friends
    ELSE IF resp.status = 403 THEN None
    ELSE None

\* a gather that yields the results in completion order
GatherResults_ByCompletion(f, ord) == [i \in 1..N |-> <<STEAM_ACCOUNTS[ord[i]], f[ord[i]]>>]

\* a gather in which a failed task voids the results of the tasks after it
GatherResults_AbortOnFailure(f, ord) ==
    [i \in 1..N |-> <<STEAM_ACCOUNTS[i],
                      IF \E j \in 1..(i - 1) : f[j] = None THEN None ELSE f[i]>>]

\* asyncio.gather: the tasks' results in the order the tasks were passed
GatherResults(f, ord) == [i \in 1..N |-> <<STEAM_ACCOUNTS[i], f[i]>>]

(* ------------------------------ messages ------------------------------- *)
Msg(kind, id, prev, count, list) ==
    [kind |-> kind, id |-> id, prev |-> prev, count |-> count, list |-> list]

Change(id, sign, diff) == [id |-> id, sign |-> sign, diff |-> diff]

\* [x for x in STEAM_ACCOUNTS if x in current], from position i on
RECURSIVE Listed(_, _)
Listed(cur, i) ==
    IF i > N THEN << >>
    ELSE IF STEAM_ACCOUNTS[i] \in DOMAIN cur
         THEN <<STEAM_ACCOUNTS[i]>> \o Listed(cur, i + 1)
         ELSE Listed(cur, i + 1)

\* the messages of the first-run branch of check_accounts
FirstRunMessages(cur) ==
    LET listed == Listed(cur, 1)
        total_accounts == Len(listed)
        private_accounts == N - total_accounts
        summary == Msg("summary", "", total_accounts, private_accounts, << >>)
        details == Msg("details", "", 0, 0,
                       [k \in 1..Len(listed) |-> <<listed[k], Get(cur, listed[k])>>])
    IN  IF total_accounts <= DETAIL_LIMIT THEN <<summary, details>> ELSE <<summary>>

(* --------------------------- check_accounts ---------------------------- *)
\* the condition without the first-run test
ShouldNotify_IgnoreFirstRun(prev_count, fr) == prev_count # None

\* the condition without the baseline test
ShouldNotify_NoBaseline(prev_count, fr) == ~fr

\* line 165: an alert needs a baseline and a run that is not the first
ShouldNotify(prev_count, fr) == prev_count # None /\ ~fr

NoTornSave == [set |-> FALSE, old |-> EmptyMap, new |-> EmptyMap]

InitFiles == {MissingFile} \cup {JsonFile(m) : m \in [RosterIds -> Counts]}

MainStart(f) ==
    /\ marker = FALSE
    /\ file = f
    /\ runs = 0
    /\ pc = "idle"
    /\ first_run = FALSE
    /\ previous = EmptyMap
    /\ current = EmptyMap
    /\ changes = << >>
    /\ fetched = [i \in 1..N |-> Pending]
    /\ order = << >>
    /\ results = << >>
    /\ idx = 1
    /\ sent = << >>
    /\ firstRunCalls = << >>
    /\ lastFailed = {}
    /\ lastDropped = EmptyMap
    /\ tornSave = NoTornSave

ChunkIdle ==
    /\ message = << >>
    /\ maxLen = 1
    /\ lines = << >>
    /\ li = 1
    /\ current_chunk = << >>
    /\ out = << >>
    /\ cpc = "off"

\* the locals of check_accounts before it runs, and after the process ended
\* without returning from it
NoLocals ==
    /\ first_run' = FALSE
    /\ previous' = EmptyMap
    /\ current' = EmptyMap
    /\ changes' = << >>
    /\ fetched' = [i \in 1..N |-> Pending]
    /\ order' = << >>
    /\ results' = << >>
    /\ idx' = 1
    /\ sent' = << >>

Init == (\E f \in InitFiles : MainStart(f)) /\ ChunkIdle

\* the script is invoked: first_run = is_first_run()
IsFirstRun ==
    /\ pc \in {"idle", "done", "failed"}
    /\ runs < MaxRuns
    /\ runs' = runs + 1
    /\ LET r == is_first_run(marker)
       IN  /\ first_run' = r.ret
           /\ marker' = r.marker
           /\ firstRunCalls' = Append(firstRunCalls, r.ret)
    /\ previous' = EmptyMap
    /\ current' = EmptyMap
    /\ changes' = << >>
    /\ fetched' = [i \in 1..N |-> Pending]
    /\ order' = << >>
    /\ results' = << >>
    /\ idx' = 1
    /\ sent' = << >>
    /\ pc' = "load"
    /\ UNCHANGED <<file, lastFailed, lastDropped, tornSave>>

\* previous = load_previous_counts(); the tasks are created
LoadPrevious ==
    /\ pc = "load"
    /\ previous' = load_previous_counts(file)
    /\ pc' = "fetch"
    /\ tornSave' = NoTornSave
    /\ UNCHANGED <<marker, file, runs, first_run, current, changes, fetched,
                   order, results, idx, sent, firstRunCalls, lastFailed, lastDropped>>

\* one fetch_friend_count task completes, in any order
FetchComplete(i) ==
    /\ pc = "fetch"
    /\ fetched[i] = Pending
    /\ \E resp \in Responses :
          fetched' = [fetched EXCEPT ![i] = fetch_friend_count(resp)]
    /\ order' = Append(order, i)
    /\ UNCHANGED <<marker, file, runs, pc, first_run, previous, current, changes,
                   results, idx, sent, firstRunCalls, lastFailed, lastDropped, tornSave>>

\* results = await asyncio.gather(*tasks): resumes when every task is done
Gather ==
    /\ pc = "fetch"
    /\ \A i \in 1..N : fetched[i] # Pending
    /\ results' = GatherResults(fetched, order)
    /\ idx' = 1
    /\ pc' = "diff"
    /\ UNCHANGED <<marker, file, runs, first_run, previous, current, changes,
                   fetched, order, sent, firstRunCalls, lastFailed, lastDropped, tornSave>>

\* one iteration of `for steam_id, profile_link, count in results`
DiffStep ==
    /\ pc = "diff"
    /\ idx <= N
    /\ LET steam_id == results[idx][1]
           count == results[idx][2]
           prev_count == Get(previous, steam_id)
       IN  IF count = None
           THEN UNCHANGED <<current, changes, sent>>
           ELSE /\ current' = Put(current, steam_id, count)
                /\ IF ShouldNotify(prev_count, first_run)
                   THEN IF count > prev_count
                        THEN /\ sent' = Append(sent, Msg("gained", steam_id, prev_count, count, << >>))
                             /\ changes' = Append(changes, Change(steam_id, "+", count - prev_count))
                        ELSE IF count < prev_count
                        THEN /\ sent' = Append(sent, Msg("lost", steam_id, prev_count, count, << >>))
                             /\ changes' = Append(changes, Change(steam_id, "-", prev_count - count))
                        ELSE UNCHANGED <<changes, sent>>
                   ELSE UNCHANGED <<changes, sent>>
    /\ idx' = idx + 1
    /\ UNCHANGED <<marker, file, runs, pc, first_run, previous, fetched, order,
                   results, firstRunCalls, lastFailed, lastDropped, tornSave>>

\* save_counts(current): open(DATA_FILE, 'w')
SaveOpen ==
    /\ pc = "diff"
    /\ idx > N
    /\ file' = save_counts_open(file)
    /\ pc' = "saving"
    /\ UNCHANGED <<marker, runs, first_run, previous, current, changes, fetched,
                   order, results, idx, sent, firstRunCalls, lastFailed, lastDropped, tornSave>>

\* save_counts(current): open raises (read-only or full disk); the exception
\* leaves check_accounts and the run ends
SaveFail ==
    /\ pc = "diff"
    /\ idx > N
    /\ pc' = "failed"
    /\ NoLocals
    /\ UNCHANGED <<marker, file, runs, firstRunCalls, lastFailed, lastDropped, tornSave>>

\* save_counts(current): json.dump completes and the file is closed
SaveDump ==
    /\ pc = "saving"
    /\ file' = save_counts_dump(file, current)
    /\ lastFailed' = RosterIds \ DOMAIN current
    /\ lastDropped' = [id \in (DOMAIN previous) \ (DOMAIN current) |-> previous[id]]
    /\ pc' = "saved"
    /\ UNCHANGED <<marker, runs, first_run, previous, current, changes, fetched,
                   order, results, idx, sent, firstRunCalls, tornSave>>

\* the tail of check_accounts: the first-run summary, or a log line
Notify ==
    /\ pc = "saved"
    /\ sent' = IF first_run THEN sent \o FirstRunMessages(current) ELSE sent
    /\ pc' = "done"
    /\ UNCHANGED <<marker, file, runs, first_run, previous, current, changes, fetched,
                   order, results, idx, firstRunCalls, lastFailed, lastDropped, tornSave>>

\* the process dies (killed, power loss) anywhere inside check_accounts
Crash ==
    /\ pc \in {"load", "fetch", "diff", "saving", "saved"}
    /\ pc' = "failed"
    /\ tornSave' = IF pc = "saving"
                   THEN [set |-> TRUE, old |-> previous, new |-> current]
                   ELSE tornSave
    /\ NoLocals
    /\ UNCHANGED <<marker, file, runs, firstRunCalls, lastFailed, lastDropped>>

Next ==
    \/ IsFirstRun /\ UNCHANGED chunkVars
    \/ LoadPrevious /\ UNCHANGED chunkVars
    \/ (\E i \in 1..N : FetchComplete(i)) /\ UNCHANGED chunkVars
    \/ Gather /\ UNCHANGED chunkVars
    \/ DiffStep /\ UNCHANGED chunkVars
    \/ SaveOpen /\ UNCHANGED chunkVars
    \/ SaveFail /\ UNCHANGED chunkVars
    \/ SaveDump /\ UNCHANGED chunkVars
    \/ Notify /\ UNCHANGED chunkVars
    \/ Crash /\ UNCHANGED chunkVars

Spec == Init /\ [][Next]_vars

(* ----------------------- send_telegram_message ------------------------- *)
\* A text is a sequence of characters; NL is the line break.
NL == "\n"
Alphabet == {"a", " ", NL}
\* what str.strip() removes at both ends
Whitespace == {" ", NL}
Texts == UNION {[1..n -> Alphabet] : n \in 0..MaxText}

\* message.split('\n')
RECURSIVE split(_)
split(s) ==
    IF \A k \in 1..Len(s) : s[k] # NL
    THEN <<s>>
    ELSE LET p == CHOOSE k \in 1..Len(s) : s[k] = NL /\ \A j \in 1..(k - 1) : s[j] # NL
         IN  <<SubSeq(s, 1, p - 1)>> \o split(SubSeq(s, p + 1, Len(s)))

RECURSIVE lstrip(_)
lstrip(s) == IF s # << >> /\ Head(s) \in Whitespace THEN lstrip(Tail(s)) ELSE s

RECURSIVE rstrip(_)
rstrip(s) ==
    IF s # << >> /\ s[Len(s)] \in Whitespace THEN rstrip(SubSeq(s, 1, Len(s) - 1)) ELSE s

\* str.strip()
strip(s) == lstrip(rstrip(s))

\* line[:n]
Prefix(s, n) == SubSeq(s, 1, IF Len(s) < n THEN Len(s) ELSE n)

ChunkInit ==
    /\ MainStart(MissingFile)
    /\ message \in Texts
    /\ maxLen \in 1..MaxL
    /\ lines = << >>
    /\ li = 1
    /\ current_chunk = << >>
    /\ out = << >>
    /\ cpc = "start"

\* len(message) <= MAX_MESSAGE_LENGTH: the message is sent as it is
SendWhole ==
    /\ cpc = "start"
    /\ Len(message) <= maxLen
    /\ out' = Append(out, message)
    /\ cpc' = "done"
    /\ UNCHANGED <<message, maxLen, lines, li, current_chunk>>

\* else: lines = message.split('\n'); current_chunk = ""
SplitStart ==
    /\ cpc = "start"
    /\ Len(message) > maxLen
    /\ lines' = split(message)
    /\ current_chunk' = << >>
    /\ li' = 1
    /\ cpc' = "loop"
    /\ UNCHANGED <<message, maxLen, out>>

\* one iteration of `for line in lines`
LoopStep ==
    /\ cpc = "loop"
    /\ li <= Len(lines)
    /\ LET line == lines[li]
       IN  IF Len(current_chunk \o line \o <<NL>>) > maxLen
           THEN IF current_chunk # << >>
                THEN /\ out' = Append(out, strip(current_chunk))
                     /\ current_chunk' = line \o <<NL>>
                ELSE /\ out' = Append(out, Prefix(line, maxLen))
                     /\ UNCHANGED current_chunk
           ELSE /\ current_chunk' = current_chunk \o line \o <<NL>>
                /\ UNCHANGED out
    /\ li' = li + 1
    /\ UNCHANGED <<message, maxLen, lines, cpc>>

\* after the loop: the remaining chunk is sent
FinalFlush ==
    /\ cpc = "loop"
    /\ li > Len(lines)
    /\ out' = IF current_chunk # << >> THEN Append(out, strip(current_chunk)) ELSE out
    /\ cpc' = "done"
    /\ UNCHANGED <<message, maxLen, lines, li, current_chunk>>

mainVars == <<marker, file, runs, pc, first_run, previous, current, changes,
              fetched, order, results, idx, sent, firstRunCalls, lastFailed,
              lastDropped, tornSave>>

NextChunk ==
    \/ SendWhole /\ UNCHANGED mainVars
    \/ SplitStart /\ UNCHANGED mainVars
    \/ LoopStep /\ UNCHANGED mainVars
    \/ FinalFlush /\ UNCHANGED mainVars

SpecChunk == ChunkInit /\ [][NextChunk]_vars

(* ============================ properties =============================== *)
\* the change alerts among the messages of this run, in send order
Alerts == SelectSeq(sent, LAMBDA m : m.kind \in {"gained", "lost"})

CountIn(seq, id) == Cardinality({k \in 1..Len(seq) : seq[k].id = id})

Succeeded(i) == fetched[i] \in Counts

\* chunks joined with line breaks
RECURSIVE Join(_)
Join(s) ==
    IF s = << >> THEN << >>
    ELSE IF Len(s) = 1 THEN s[1]
    ELSE s[1] \o <<NL>> \o Join(Tail(s))

\* s is a subsequence of r[j..]
RECURSIVE Embeds(_, _, _)
Embeds(s, r, j) ==
    IF s = << >> THEN TRUE
    ELSE IF j > Len(r) THEN FALSE
    ELSE IF r[j] = Head(s) THEN Embeds(Tail(s), r, j + 1)
    ELSE Embeds(s, r, j + 1)

\* C1: every message handed to _send_single_message is at most
\* MAX_MESSAGE_LENGTH characters long, whatever the text.
C1_ChunksWithinLimit ==
    \A k \in 1..Len(out) : Len(out[k]) <= maxLen

\* C2: no notification is sent before save_counts has written the current
\* snapshot: while the run is still before the end of save_counts, nothing
\* has been handed to send_telegram_message.
C2_NotifyAfterPersist ==
    pc \in {"load", "fetch", "diff", "saving"} => sent = << >>

\* C3: on a non-first run, once the diff loop has ended, every identifier
\* of the roster whose fetched count differs from its previous count has
\* exactly one alert and exactly one entry in changes, with the right delta.
C3_ExactlyOneEventPerAccount ==
    (pc = "diff" /\ idx > N /\ ~first_run) =>
        \A id \in RosterIds :
            (/\ id \in DOMAIN previous
             /\ \E i \in 1..N : /\ STEAM_ACCOUNTS[i] = id
                                /\ Succeeded(i)
                                /\ fetched[i] # previous[id])
            => /\ CountIn(Alerts, id) = 1
               /\ CountIn(changes, id) = 1
               /\ \A k \in 1..Len(changes) :
                     changes[k].id = id =>
                        \E i \in 1..N :
                            /\ STEAM_ACCOUNTS[i] = id
                            /\ Succeeded(i)
                            /\ IF fetched[i] > previous[id]
                               THEN changes[k] = Change(id, "+", fetched[i] - previous[id])
                               ELSE changes[k] = Change(id, "-", previous[id] - fetched[i])

\* C4: after a save_counts that was interrupted between open and the end of
\* json.dump, the next load_previous_counts returns the complete previous
\* snapshot or the complete new one.
C4_LoadAfterTornSave ==
    [][(pc = "load" /\ pc' = "fetch" /\ tornSave.set)
          => previous' \in {tornSave.old, tornSave.new}]_vars

\* C5: an alert and its entry in changes exist only for an identifier that
\* is in the loaded previous snapshot and in the current one, with a fetched
\* count that differs from the previous count, on a run that is not the
\* first; a first run has none, and an identifier whose fetches all failed
\* has none.
C5_EventsOnlyForRealChanges ==
    /\ Len(Alerts) = Len(changes)
    /\ first_run => (changes = << >> /\ Alerts = << >>)
    /\ \A k \in 1..Len(Alerts) :
          LET e == Alerts[k]
          IN  /\ ~first_run
              /\ changes[k].id = e.id
              /\ e.id \in DOMAIN previous
              /\ e.id \in DOMAIN current
              /\ previous[e.id] = e.prev
              /\ e.count # e.prev
              /\ \E i \in 1..N : /\ STEAM_ACCOUNTS[i] = e.id
                                 /\ Succeeded(i)
                                 /\ fetched[i] = e.count

\* a non-first run has ended its loop with an alert for one identifier and
\* none for another that had a baseline but no successful fetch
C5_Witness ==
    /\ pc = "diff" /\ idx > N /\ ~first_run
    /\ changes # << >>
    /\ \E id \in DOMAIN previous :
          /\ \A i \in 1..N : STEAM_ACCOUNTS[i] = id => fetched[i] = None
          /\ CountIn(Alerts, id) = 0

\* C6: starting with no marker, the first call of is_first_run returns true
\* and records the marker, every later call returns false, and the marker
\* stays, also when the first run failed before save_counts.
C6_FirstRunLatch ==
    /\ \A k \in 1..Len(firstRunCalls) : firstRunCalls[k] = (k = 1)
    /\ marker = (firstRunCalls # << >>)

\* the second invocation, after a first one that never wrote DATA_FILE
C6_Witness ==
    /\ firstRunCalls = <<TRUE, FALSE>>
    /\ pc = "load"
    /\ file.state = "missing"
    /\ marker

\* C8: the diff loop runs only when every fetch has completed, every task's
\* result is kept whatever the others did, and the snapshot that
\* save_counts has written maps exactly the identifiers with a successful
\* fetch to their fetched counts.
C8_SnapshotIsSuccessfulFetches ==
    /\ pc \in {"diff", "saving", "saved", "done"} =>
          \A i \in 1..N : /\ fetched[i] # Pending
                          /\ results[i] = <<STEAM_ACCOUNTS[i], fetched[i]>>
    /\ pc \in {"saved", "done"} =>
          /\ file.state = "json"
          /\ DOMAIN file.data = {STEAM_ACCOUNTS[i] : i \in {j \in 1..N : Succeeded(j)}}
          /\ \A id \in DOMAIN file.data :
                \E i \in 1..N :
                    /\ STEAM_ACCOUNTS[i] = id /\ Succeeded(i)
                    /\ file.data[id] = fetched[i]
                    /\ \A j \in (i + 1)..N : ~(STEAM_ACCOUNTS[j] = id /\ Succeeded(j))

\* a run has saved after a failure completed first and a success later, the
\* failed identifier having been in the previous file
C8_Witness ==
    /\ pc = "done"
    /\ \E i, j \in 1..N :
          /\ fetched[i] = None /\ Succeeded(j)
          /\ STEAM_ACCOUNTS[i] \in DOMAIN previous
          /\ STEAM_ACCOUNTS[i] \notin DOMAIN file.data
          /\ STEAM_ACCOUNTS[j] \in DOMAIN file.data
          /\ \E a, b \in 1..Len(order) : a < b /\ order[a] = i /\ order[b] = j

\* C9: the alerts of a run are sent in roster order, whatever the order in
\* which the fetches completed.
C9_AlertsInRosterOrder ==
    Embeds([k \in 1..Len(Alerts) |-> Alerts[k].id], STEAM_ACCOUNTS, 1)

\* two alerts for different identifiers, whose fetches completed in the
\* opposite order
C9_Witness ==
    /\ Len(Alerts) >= 2
    /\ Alerts[1].id # Alerts[2].id
    /\ \E a, b \in 1..Len(order) :
          /\ a < b
          /\ STEAM_ACCOUNTS[order[a]] = Alerts[2].id
          /\ STEAM_ACCOUNTS[order[b]] = Alerts[1].id

\* C10: an identifier with no successful fetch in the last run that saved
\* is not in the file that run wrote, and no alert or change entry is made
\* for it in the run that follows, whatever count is fetched then.
C10_FailedAccountRebaselined ==
    /\ pc \in {"saved", "done"} => lastFailed \cap DOMAIN file.data = {}
    /\ pc \in {"load", "fetch", "diff", "saving"} =>
          \A id \in lastFailed : CountIn(Alerts, id) = 0 /\ CountIn(changes, id) = 0

\* the run after: not the first, the identifier had a baseline before the
\* run in which it failed, and is now fetched with another count
C10_Witness ==
    /\ pc = "diff" /\ idx > N /\ ~first_run
    /\ \E id \in lastFailed :
          /\ id \in DOMAIN lastDropped
          /\ id \in DOMAIN current
          /\ current[id] # lastDropped[id]
          /\ CountIn(Alerts, id) = 0

\* C7: the chunks sent, joined with line breaks, are the lines of the text
\* in their order, each unchanged except for a line longer than the limit,
\* which is cut to the limit.
C7_ChunksReconstructText ==
    cpc = "done" =>
        split(Join(out)) =
            [k \in 1..Len(split(message)) |-> Prefix(split(message)[k], maxLen)]

====
